---- MODULE Spec2Model ----
(***************************************************************************)
(* Gaussian-mixture utilities of diffuse/mixture.py: init_mixture,         *)
(* transform_mixture_params, cdf_mixtr / cdf_t and sampler_mixtr.          *)
(*                                                                         *)
(* Array entries are extended rationals <<n, d>>: d > 0 is the fraction    *)
(* n/d in lowest terms, <<1, 0>> and <<-1, 0>> are +inf and -inf and       *)
(* <<0, 0>> is NaN, with the IEEE-754 rules for the special values.        *)
(* Rounding of finite values is not modelled: sums, products and            *)
(* quotients are exact, exp is taken on a lattice where it is exact, and   *)
(* the square root is truncated to a fixed precision.  Signed zeros are    *)
(* not distinguished.                                                      *)
(***************************************************************************)
EXTENDS Integers, Sequences, FiniteSets, TLC

(* ---------------------------------------------------------------------- *)
(* Scalar arithmetic of the array library                                  *)
(* ---------------------------------------------------------------------- *)

Abs(n) == IF n < 0 THEN -n ELSE n

Sign(n) == IF n < 0 THEN -1 ELSE IF n > 0 THEN 1 ELSE 0

RECURSIVE GCD(_, _)
GCD(a, b) == IF b = 0 THEN a ELSE GCD(b, a % b)

NaN == <<0, 0>>

PosInf == <<1, 0>>

NegInf == <<-1, 0>>

\* the fraction n/d (d # 0) in lowest terms with a positive denominator
Frac(n, d) ==
    LET g == GCD(Abs(n), Abs(d))
        s == Sign(d)
    IN  <<(s * n) \div g, (s * d) \div g>>

R(n) == <<n, 1>>

IsNaN(a) == a = NaN

IsInf(a) == a[2] = 0 /\ a[1] # 0

IsFinite(a) == a[2] # 0

Inf(s) == IF s > 0 THEN PosInf ELSE IF s < 0 THEN NegInf ELSE NaN

RNeg(a) == <<-a[1], a[2]>>

RAdd(a, b) ==
    IF IsNaN(a) \/ IsNaN(b) THEN NaN
    ELSE IF IsInf(a) /\ IsInf(b) THEN (IF a = b THEN a ELSE NaN)
    ELSE IF IsInf(a) THEN a
    ELSE IF IsInf(b) THEN b
    ELSE LET g == GCD(a[2], b[2])
         IN  Frac(a[1] * (b[2] \div g) + b[1] * (a[2] \div g), (a[2] \div g) * b[2])

RSub(a, b) == RAdd(a, RNeg(b))

RMul(a, b) ==
    IF IsNaN(a) \/ IsNaN(b) THEN NaN
    ELSE IF IsInf(a) \/ IsInf(b) THEN Inf(Sign(a[1]) * Sign(b[1]))
    ELSE LET g1 == GCD(Abs(a[1]), b[2])
             g2 == GCD(Abs(b[1]), a[2])
         IN  Frac((a[1] \div g1) * (b[1] \div g2), (a[2] \div g2) * (b[2] \div g1))

RDiv(a, b) ==
    IF IsNaN(a) \/ IsNaN(b) THEN NaN
    ELSE IF IsInf(b) THEN (IF IsInf(a) THEN NaN ELSE R(0))
    ELSE IF b[1] = 0 THEN Inf(Sign(a[1]))
    ELSE IF IsInf(a) THEN Inf(Sign(a[1]) * Sign(b[1]))
    ELSE RMul(a, Frac(b[2], b[1]))

\* a <= b; every comparison with NaN is false
RLeq(a, b) ==
    /\ ~IsNaN(a)
    /\ ~IsNaN(b)
    /\ \/ a = NegInf
       \/ b = PosInf
       \/ /\ IsFinite(a)
          /\ IsFinite(b)
          /\ LET g == GCD(a[2], b[2])
             IN  a[1] * (b[2] \div g) <= b[1] * (a[2] \div g)

RLt(a, b) == RLeq(a, b) /\ a # b

\* largest s >= 0 with s * s <= m
ISqrt(m) == CHOOSE s \in 0..m : s * s <= m /\ (s + 1) * (s + 1) > m

SqrtPrec == 64

\* square root: NaN below zero, otherwise the root truncated to a multiple of
\* 1/SqrtPrec (exact for the squares of such multiples)
RSqrt(a) ==
    IF IsNaN(a) \/ a[1] < 0 THEN NaN
    ELSE IF IsInf(a) THEN PosInf
    ELSE Frac(ISqrt((a[1] * SqrtPrec * SqrtPrec) \div a[2]), SqrtPrec)

\* jnp.exp on the lattice of integer multiples of ln 2, where it is exact:
\* the argument k stands for k * ln 2 and exp(k ln 2) = 2^k
Exp(k) ==
    IF IsNaN(k) THEN NaN
    ELSE IF k = PosInf THEN PosInf
    ELSE IF k = NegInf THEN R(0)
    ELSE IF k[1] >= 0 THEN R(2 ^ k[1])
    ELSE Frac(1, 2 ^ (-k[1]))

(* ---------------------------------------------------------------------- *)
(* State                                                                   *)
(* ---------------------------------------------------------------------- *)

VARIABLES
    init_state,   \* the MixState init_mixture returned
    prev_state,   \* the argument of the last transform_mixture_params call
    current,      \* the MixState in hand: the last result
    t_last,       \* the time of the last transform, -1 before the first
    t_total,      \* the sum of the times applied so far
    cdf,          \* the last cdf_mixtr or cdf_t call: arguments and result
    ncalls,       \* the number of sampler_mixtr calls made
    saved,        \* an earlier sampler_mixtr call: arguments and result
    last          \* the latest sampler_mixtr call: arguments and result

(* ---------------------------------------------------------------------- *)
(* Array operations: a vector is a sequence of scalars, a matrix a         *)
(* sequence of rows, a batch a sequence of vectors or matrices             *)
(* ---------------------------------------------------------------------- *)

\* an array value: the entries of f, each evaluated once when the array is built
Array(f) == f @@ <<>>

RECURSIVE Sum(_)
Sum(v) == IF Len(v) = 0 THEN R(0) ELSE RAdd(Sum(SubSeq(v, 1, Len(v) - 1)), v[Len(v)])

Transpose(A) == Array([i \in 1..Len(A) |-> Array([j \in 1..Len(A) |-> A[j][i]])])

MatMul(A, B) ==
    Array([i \in 1..Len(A) |-> Array([j \in 1..Len(A) |->
        Sum([k \in 1..Len(A) |-> RMul(A[i][k], B[k][j])])])])

Eye(d) == Array([i \in 1..d |-> Array([j \in 1..d |-> IF i = j THEN R(1) ELSE R(0)])])

MixState(means, cov, mix_weights) ==
    [means |-> means, cov |-> cov, mix_weights |-> mix_weights]

Dim(state) == Len(state.means[1])

(* ---------------------------------------------------------------------- *)
(* init_mixture                                                            *)
(* ---------------------------------------------------------------------- *)

n_mixt == 3

MaxD == 2

\* outcomes of jax.random.uniform, which draws from [0, 1)
UGridSeq == <<R(0), Frac(1, 4), Frac(3, 4)>>

UGrid == {UGridSeq[i] : i \in 1..Len(UGridSeq)}

\* outcomes of jax.random.normal
NGridSeq == <<R(-1), R(0), R(1), R(2)>>

\* what the generators seeded key, key + 1 and key + 2 return for dimension d:
\* the uniform (n_mixt, d) draw, the normal (n_mixt, d, d) draw and the
\* uniform (n_mixt,) draw
MeanDraws(d) ==
    {[k \in 1..n_mixt |-> [i \in 1..d |-> UGridSeq[((p + k + i) % 3) + 1]]] : p \in 0..1}

NormalDraws(d) ==
    {[k \in 1..n_mixt |-> [i \in 1..d |-> [j \in 1..d |->
        NGridSeq[((p + k * i + j) % 4) + 1]]]] : p \in 0..1}

WeightDraws == [1..n_mixt -> UGrid]

Draws(d) ==
    {[means |-> m, chol |-> c, mix_weights |-> w] :
        m \in MeanDraws(d), c \in NormalDraws(d), w \in WeightDraws}

\* init_mixture(key, d), with the three draws made from key standing for key
init_mixture(draws, d) ==
    LET minval == R(-3)
        maxval == R(3)
        means == Array([k \in 1..n_mixt |-> Array([i \in 1..d |->
                    RAdd(minval, RMul(draws.means[k][i], RSub(maxval, minval)))])])
        chol == draws.chol
        prod == Array([k \in 1..n_mixt |-> MatMul(chol[k], Transpose(chol[k]))])
        covs == Array([k \in 1..n_mixt |-> Array([i \in 1..d |-> Array([j \in 1..d |->
                    RMul(Frac(1, 10), prod[k][i][j])])])])
        total == Sum(draws.mix_weights)
        mix_weights == Array([k \in 1..n_mixt |-> RDiv(draws.mix_weights[k], total)])
    IN  MixState(means, covs, mix_weights)

(* ---------------------------------------------------------------------- *)
(* transform_mixture_params                                                *)
(* ---------------------------------------------------------------------- *)

MaxT == 2

\* sde.beta.integrate(t, s) for a constant schedule beta = 2 ln 2, in units
\* of ln 2
integrate(t, s) == R(2 * (t - s))

\* transform_mixture_params, had it scaled the weights like the means
transform_scaling_weights(state, t) ==
    LET means == state.means
        covs == state.cov
        weights == state.mix_weights
        int_b == integrate(t, 0)
        alpha == Exp(RMul(Frac(-1, 2), int_b))
        beta == RSub(R(1), Exp(RNeg(int_b)))
        eye == Eye(Len(covs[1][1]))
    IN  MixState(
            Array([k \in 1..Len(means) |-> Array([i \in 1..Len(means[k]) |->
                RMul(alpha, means[k][i])])]),
            Array([k \in 1..Len(covs) |-> Array([i \in 1..Len(covs[k]) |->
                Array([j \in 1..Len(covs[k][i]) |->
                    RAdd(RMul(RMul(alpha, alpha), covs[k][i][j]), RMul(beta, eye[i][j]))])])]),
            Array([k \in 1..Len(weights) |-> RMul(alpha, weights[k])]))

\* transform_mixture_params, had beta been exp(-int_b) instead of 1 - exp(-int_b)
transform_noise_kept(state, t) ==
    LET means == state.means
        covs == state.cov
        weights == state.mix_weights
        int_b == integrate(t, 0)
        alpha == Exp(RMul(Frac(-1, 2), int_b))
        beta == Exp(RNeg(int_b))
        eye == Eye(Len(covs[1][1]))
    IN  MixState(
            Array([k \in 1..Len(means) |-> Array([i \in 1..Len(means[k]) |->
                RMul(alpha, means[k][i])])]),
            Array([k \in 1..Len(covs) |-> Array([i \in 1..Len(covs[k]) |->
                Array([j \in 1..Len(covs[k][i]) |->
                    RAdd(RMul(RMul(alpha, alpha), covs[k][i][j]), RMul(beta, eye[i][j]))])])]),
            weights)

\* transform_mixture_params, had beta been added to every entry (no jnp.eye)
transform_scalar_noise(state, t) ==
    LET means == state.means
        covs == state.cov
        weights == state.mix_weights
        int_b == integrate(t, 0)
        alpha == Exp(RMul(Frac(-1, 2), int_b))
        beta == RSub(R(1), Exp(RNeg(int_b)))
        eye == Eye(Len(covs[1][1]))
    IN  MixState(
            Array([k \in 1..Len(means) |-> Array([i \in 1..Len(means[k]) |->
                RMul(alpha, means[k][i])])]),
            Array([k \in 1..Len(covs) |-> Array([i \in 1..Len(covs[k]) |->
                Array([j \in 1..Len(covs[k][i]) |->
                    RAdd(RMul(RMul(alpha, alpha), covs[k][i][j]), beta)])])]),
            weights)

\* transform_mixture_params, had beta been 1 - alpha instead of 1 - alpha^2
transform_linear_noise(state, t) ==
    LET means == state.means
        covs == state.cov
        weights == state.mix_weights
        int_b == integrate(t, 0)
        alpha == Exp(RMul(Frac(-1, 2), int_b))
        beta == RSub(R(1), alpha)
        eye == Eye(Len(covs[1][1]))
    IN  MixState(
            Array([k \in 1..Len(means) |-> Array([i \in 1..Len(means[k]) |->
                RMul(alpha, means[k][i])])]),
            Array([k \in 1..Len(covs) |-> Array([i \in 1..Len(covs[k]) |->
                Array([j \in 1..Len(covs[k][i]) |->
                    RAdd(RMul(RMul(alpha, alpha), covs[k][i][j]), RMul(beta, eye[i][j]))])])]),
            weights)

transform_mixture_params(state, t) ==
    LET means == state.means
        covs == state.cov
        weights == state.mix_weights
        int_b == integrate(t, 0)
        alpha == Exp(RMul(Frac(-1, 2), int_b))
        beta == RSub(R(1), Exp(RNeg(int_b)))
        eye == Eye(Len(covs[1][1]))
    IN  MixState(
            Array([k \in 1..Len(means) |-> Array([i \in 1..Len(means[k]) |->
                RMul(alpha, means[k][i])])]),
            Array([k \in 1..Len(covs) |-> Array([i \in 1..Len(covs[k]) |->
                Array([j \in 1..Len(covs[k][i]) |->
                    RAdd(RMul(RMul(alpha, alpha), covs[k][i][j]), RMul(beta, eye[i][j]))])])]),
            weights)

(* ---------------------------------------------------------------------- *)
(* cdf_mixtr and cdf_t, for the (K, 1) means and (K, 1, 1) covariances     *)
(* init_mixture(key, 1) returns and a query array x of shape (M,)          *)
(* ---------------------------------------------------------------------- *)

\* 100 * Phi(z) at z = -3, -2, ..., 3, to two decimals
PhiTable == <<0, 2, 16, 50, 84, 98, 100>>

\* jax.scipy.stats.norm.cdf: the piecewise-linear interpolation of Phi through
\* PhiTable, 0 below -3 and 1 above 3
NormalCDF(z) ==
    IF IsNaN(z) THEN NaN
    ELSE IF z = NegInf THEN R(0)
    ELSE IF z = PosInf THEN R(1)
    ELSE LET f == z[1] \div z[2]
         IN  IF f < -3 THEN R(0)
             ELSE IF f >= 3 THEN R(1)
             ELSE RAdd(Frac(PhiTable[f + 4], 100),
                       RMul(RSub(z, R(f)), Frac(PhiTable[f + 5] - PhiTable[f + 4], 100)))

\* single_cdf, had it standardized mean - x instead of x - mean
single_cdf_reversed(mean, std, weight, x) ==
    Array([m \in 1..Len(x) |->
        RMul(weight, NormalCDF(RDiv(RSub(mean[1], x[m]), std[1][1])))])

single_cdf(mean, std, weight, x) ==
    Array([m \in 1..Len(x) |->
        RMul(weight, NormalCDF(RDiv(RSub(x[m], mean[1]), std[1][1])))])

cdf_mixtr(mix_state, x) ==
    LET means == mix_state.means
        covs == mix_state.cov
        weights == mix_state.mix_weights
        stds == Array([k \in 1..Len(covs) |-> Array([i \in 1..Len(covs[k]) |->
                    Array([j \in 1..Len(covs[k][i]) |-> RSqrt(covs[k][i][j])])])])
        cdfs == Array([k \in 1..Len(means) |->
                    single_cdf(means[k], stds[k], weights[k], x)])
    IN  Array([m \in 1..Len(x) |-> Sum([k \in 1..Len(cdfs) |-> cdfs[k][m]])])

cdf_t(x, t, init_mix_state) ==
    cdf_mixtr(transform_mixture_params(init_mix_state, t), x)

(* ---------------------------------------------------------------------- *)
(* sampler_mixtr                                                           *)
(* ---------------------------------------------------------------------- *)

MaxKey == 1

MaxN == 2

\* jax.random.split: the two children of a key in the key tree
split(key) == <<2 * key + 1, 2 * key + 2>>

\* the generator's counter-mode mixing of a key and an element position
Mix(key, c) == (key + 1) * (c + 1) + key * key

\* jax.random.uniform(key, (N,)) and jax.random.normal(key, (N, d)): fixed
\* functions of the key and the shape
uniform(key, N) == Array([n \in 1..N |-> UGridSeq[(Mix(key, n + N) % 3) + 1]])

normal(key, N, d) ==
    Array([n \in 1..N |-> Array([i \in 1..d |->
        NGridSeq[(Mix(key, 2 * n + 3 * i + N + d) % 4) + 1]])])

\* jnp.cumsum
cumsum(p) == Array([k \in 1..Len(p) |-> Sum(SubSeq(p, 1, k))])

\* jnp.searchsorted(a, v), side left, as a 1-based position, clamped to the
\* last one as an out-of-bounds gather index is
searchsorted(a, v) ==
    LET below == Cardinality({k \in 1..Len(a) : RLt(a[k], v)})
    IN  IF below >= Len(a) THEN Len(a) ELSE below + 1

\* jax.random.choice(key, arange(K), shape=(N,), p=p)
choice(key, N, p) ==
    LET p_cuml == cumsum(p)
        u == uniform(key, N)
    IN  Array([n \in 1..N |->
            searchsorted(p_cuml, RMul(p_cuml[Len(p)], RSub(R(1), u[n])))])

RECURSIVE CholEntry(_, _, _)
CholEntry(A, i, j) ==
    IF j > i THEN R(0)
    ELSE IF j = i
        THEN RSqrt(RSub(A[i][i],
                Sum([k \in 1..(i - 1) |-> RMul(CholEntry(A, i, k), CholEntry(A, i, k))])))
        ELSE RDiv(RSub(A[i][j],
                Sum([k \in 1..(j - 1) |-> RMul(CholEntry(A, i, k), CholEntry(A, j, k))])),
                CholEntry(A, j, j))

\* jnp.linalg.cholesky of one matrix: the lower factor of the symmetrized
\* input, or a matrix of NaN when a pivot is not positive
cholesky(A) ==
    LET d == Len(A)
        S == Array([i \in 1..d |-> Array([j \in 1..d |->
                RMul(Frac(1, 2), RAdd(A[i][j], A[j][i]))])])
        L == Array([i \in 1..d |-> Array([j \in 1..d |-> CholEntry(S, i, j)])])
        ok == \A i \in 1..d : IsFinite(L[i][i]) /\ L[i][i][1] > 0
    IN  IF ok THEN L ELSE Array([i \in 1..d |-> Array([j \in 1..d |-> NaN])])

\* sampler_mixtr, had it drawn from a generator that every call advances
sampler_mixtr_global_stream(key, state, N) ==
    LET mu == state.means
        sigma == state.cov
        weights == state.mix_weights
        d == Len(mu[1])
        key1 == split(key + ncalls)[1]
        key2 == split(key + ncalls)[2]
        idx == choice(key1, N, weights)
        noise == normal(key2, N, d)
        chol == Array([k \in 1..Len(sigma) |-> cholesky(sigma[k])])
        noise_scaled == Array([n \in 1..N |-> Array([j \in 1..d |->
                            Sum([i \in 1..d |-> RMul(chol[idx[n]][i][j], noise[n][i])])])])
    IN  [idx |-> idx, noise |-> noise, chol |-> chol,
         out |-> Array([n \in 1..N |-> Array([j \in 1..d |->
                    RAdd(mu[idx[n]][j], noise_scaled[n][j])])])]

\* sampler_mixtr(key, state, N): the locals idx, noise and chol, and the
\* returned array out
sampler_mixtr(key, state, N) ==
    LET mu == state.means
        sigma == state.cov
        weights == state.mix_weights
        d == Len(mu[1])
        key1 == split(key)[1]
        key2 == split(key)[2]
        idx == choice(key1, N, weights)
        noise == normal(key2, N, d)
        chol == Array([k \in 1..Len(sigma) |-> cholesky(sigma[k])])
        noise_scaled == Array([n \in 1..N |-> Array([j \in 1..d |->
                            Sum([i \in 1..d |-> RMul(chol[idx[n]][i][j], noise[n][i])])])])
    IN  [idx |-> idx, noise |-> noise, chol |-> chol,
         out |-> Array([n \in 1..N |-> Array([j \in 1..d |->
                    RAdd(mu[idx[n]][j], noise_scaled[n][j])])])]

(* ---------------------------------------------------------------------- *)
(* Mixture states handed to the sampler and to the CDF evaluator           *)
(* ---------------------------------------------------------------------- *)

\* a mixture given by its means, the factors L of its covariances L L^T and
\* its weights
FromFactors(means, Ls, weights) ==
    MixState(means, Array([k \in 1..Len(Ls) |-> MatMul(Ls[k], Transpose(Ls[k]))]), weights)

Mix1D ==
    FromFactors(<< <<R(0)>>, <<R(3)>> >>, << <<<<R(1)>>>>, <<<<R(2)>>>> >>,
                <<Frac(1, 4), Frac(3, 4)>>)

Mix2D ==
    FromFactors(<< <<R(0), R(0)>>, <<R(1), R(-1)>> >>,
                << << <<R(1), R(0)>>, <<R(2), R(1)>> >>,
                   << <<R(2), R(0)>>, <<R(1), R(3)>> >> >>,
                <<Frac(1, 2), Frac(1, 2)>>)

\* the first covariance is symmetric and indefinite
MixIndefinite ==
    MixState(<< <<R(0), R(0)>>, <<R(1), R(-1)>> >>,
             << << <<R(1), R(2)>>, <<R(2), R(1)>> >>,
                << <<R(4), R(2)>>, <<R(2), R(10)>> >> >>,
             <<Frac(1, 2), Frac(1, 2)>>)

\* weights that sum to 3/2
MixHeavy == MixState(Mix1D.means, Mix1D.cov, <<Frac(1, 2), R(1)>>)

\* a negative weight
MixNegative == MixState(Mix1D.means, Mix1D.cov, <<Frac(-1, 2), Frac(3, 2)>>)

\* three components, the first of weight zero
Mix3 ==
    FromFactors(<< <<R(-3)>>, <<R(-1)>>, <<R(2)>> >>,
                << <<<<R(1)>>>>, <<<<R(2)>>>>, <<<<R(1)>>>> >>,
                <<R(0), Frac(1, 4), Frac(3, 4)>>)

SamplerStates == {Mix1D, Mix2D, Mix3, MixIndefinite, MixHeavy}

CdfStates ==
    {Mix1D, MixHeavy, MixNegative} \cup {init_mixture(dr, 1) : dr \in Draws(1)}

XGrid == {NegInf, R(-2), R(0), Frac(3, 2), PosInf}

None == [call |-> "none"]

MaxCalls == 3

vars == <<init_state, prev_state, current, t_last, t_total, cdf, ncalls, saved, last>>

chain == <<init_state, prev_state, current, t_last, t_total>>

sampling == <<ncalls, saved, last>>

Start(s) ==
    /\ init_state = s
    /\ prev_state = s
    /\ current = s
    /\ t_last = -1
    /\ t_total = 0
    /\ cdf = None
    /\ ncalls = 0
    /\ saved = None
    /\ last = None

(* ---------------------------------------------------------------------- *)
(* CDF evaluations of the mixture in hand                                  *)
(* ---------------------------------------------------------------------- *)

\* The evaluators are applied to the (K, 1) and (K, 1, 1) shapes of a
\* 1-D mixture, the case the univariate formula is for, and once per
\* mixture: they are pure functions of their arguments.
CdfMixtr(x) ==
    /\ cdf = None
    /\ Dim(current) = 1
    /\ cdf' = [call |-> "cdf_mixtr", x |-> x, t |-> 0, used |-> current,
               status |-> "returned", out |-> cdf_mixtr(current, x)]
    /\ UNCHANGED <<chain, sampling>>

CdfT(x, t) ==
    /\ cdf = None
    /\ Dim(current) = 1
    /\ cdf' = [call |-> "cdf_t", x |-> x, t |-> t,
               used |-> transform_mixture_params(current, t),
               status |-> "returned", out |-> cdf_t(x, t, current)]
    /\ UNCHANGED <<chain, sampling>>

InitCdf == \E s \in CdfStates : Start(s)

NextCdf ==
    \E x \in [1..2 -> XGrid] :
        \/ CdfMixtr(x)
        \/ \E t \in 0..MaxT : CdfT(x, t)

SpecCdf == InitCdf /\ [][NextCdf]_vars

(* ---------------------------------------------------------------------- *)
(* Successive transforms of an initial mixture, and cdf_t of the result    *)
(* ---------------------------------------------------------------------- *)

Init == \E d \in 1..MaxD : \E draws \in Draws(d) : Start(init_mixture(draws, d))

Transform(t) ==
    /\ t_total + t <= MaxT
    /\ current' = transform_mixture_params(current, t)
    /\ prev_state' = current
    /\ t_last' = t
    /\ t_total' = t_total + t
    /\ cdf' = None
    /\ UNCHANGED <<init_state, sampling>>

Next ==
    \/ \E t \in 0..MaxT : Transform(t)
    \/ \E x \in [1..1 -> XGrid], t \in 0..MaxT : CdfT(x, t)

Spec == Init /\ [][Next]_vars

(* ---------------------------------------------------------------------- *)
(* Calls of the sampler                                                    *)
(* ---------------------------------------------------------------------- *)

InitSampler == Start(Mix1D)

\* what sampler_mixtr returns for each argument triple of the calls below
returned ==
    Array([key \in 0..MaxKey, s \in SamplerStates, N \in 1..MaxN |->
        sampler_mixtr(key, s, N)])

\* call number ncalls + 1; the first call is kept in saved, the latest in last
Sample(key, s, N) ==
    /\ ncalls < MaxCalls
    /\ ncalls' = ncalls + 1
    /\ last' = [call |-> "sampler_mixtr", key |-> key, state |-> s, N |-> N,
                status |-> "returned", ret |-> returned[key, s, N]]
    /\ saved' = IF ncalls = 0 THEN last' ELSE saved
    /\ UNCHANGED <<chain, cdf>>

NextSampler == \E key \in 0..MaxKey, s \in SamplerStates, N \in 1..MaxN : Sample(key, s, N)

SpecSampler == InitSampler /\ [][NextSampler]_vars

(* ---------------------------------------------------------------------- *)
(* Properties of init_mixture and transform_mixture_params (Spec)          *)
(* ---------------------------------------------------------------------- *)

\* IEEE equality: NaN equals nothing
REq(a, b) == ~IsNaN(a) /\ ~IsNaN(b) /\ a = b

Components(s) == 1..Len(s.mix_weights)

Coords(s) == 1..Dim(s)

\* the weights are a probability vector
ProperWeights(s) ==
    /\ \A k \in Components(s) : RLeq(R(0), s.mix_weights[k])
    /\ REq(Sum(s.mix_weights), R(1))

\* the data-model invariants of a MixState with K components
WellFormed(s, K) ==
    /\ Len(s.means) = K
    /\ Len(s.cov) = K
    /\ Len(s.mix_weights) = K
    /\ \A k \in 1..K :
        /\ Len(s.means[k]) = Dim(s)
        /\ Len(s.cov[k]) = Dim(s)
        /\ \A i \in Coords(s) :
            /\ Len(s.cov[k][i]) = Dim(s)
            /\ \A j \in Coords(s) : REq(s.cov[k][i][j], s.cov[k][j][i])
    /\ ProperWeights(s)

Transformed == t_last >= 0

\* C1: for a valid state and every time t, the weights transform_mixture_params
\* returns are its argument's weights, component by component and in the same
\* order; they are still the initial weights after any number of transforms,
\* and they are the weights cdf_t hands to cdf_mixtr.
C1_WeightsUnchanged ==
    ProperWeights(init_state) =>
        /\ Len(current.mix_weights) = Len(prev_state.mix_weights)
        /\ \A k \in Components(prev_state) :
            /\ REq(current.mix_weights[k], prev_state.mix_weights[k])
            /\ REq(current.mix_weights[k], init_state.mix_weights[k])
        /\ cdf.call = "cdf_t" =>
            /\ Len(cdf.used.mix_weights) = Len(current.mix_weights)
            /\ \A k \in Components(current) :
                REq(cdf.used.mix_weights[k], current.mix_weights[k])

\* two transforms at positive times of a state whose weights are all different,
\* and then cdf_t at a positive time
C1_Witness ==
    /\ t_last > 0
    /\ t_total > t_last
    /\ cdf.call = "cdf_t"
    /\ cdf.t > 0
    /\ ProperWeights(prev_state)
    /\ \A k, l \in Components(prev_state) :
        k # l => init_state.mix_weights[k] # init_state.mix_weights[l]

\* C2: at t = 0 the noise integral is 0 and transform_mixture_params returns
\* every mean, every covariance entry and every weight unchanged.
C2_IdentityAtZero ==
    (t_last = 0 /\ ProperWeights(prev_state)) =>
        /\ integrate(t_last, 0) = R(0)
        /\ \A k \in Components(prev_state) :
            /\ REq(current.mix_weights[k], prev_state.mix_weights[k])
            /\ \A i \in Coords(prev_state) :
                /\ REq(current.means[k][i], prev_state.means[k][i])
                /\ \A j \in Coords(prev_state) :
                    REq(current.cov[k][i][j], prev_state.cov[k][i][j])

\* a transform at t = 0 of an already noised state of dimension above 1 with a
\* covariance that is not diagonal
C2_Witness ==
    /\ t_last = 0
    /\ t_total > 0
    /\ ProperWeights(prev_state)
    /\ Dim(prev_state) > 1
    /\ \E k \in Components(prev_state) : prev_state.cov[k][1][2] # R(0)

\* C3: with alpha = exp(-int_b / 2) and variance_noise = 1 - exp(-int_b)
\* = 1 - alpha^2, every component k gets mean alpha * mean_k and covariance
\* alpha^2 * covariance_k + variance_noise * Identity: variance_noise is added
\* on the diagonal of each component's own matrix only, and the same two
\* factors serve all components.
C3_ClosedForm ==
    Transformed =>
        LET a == Frac(1, 2 ^ t_last)
            a2 == Frac(1, 4 ^ t_last)
            variance_noise == Frac(4 ^ t_last - 1, 4 ^ t_last)
        IN  /\ a2 = RMul(a, a)
            /\ variance_noise = RSub(R(1), a2)
            /\ \A k \in 1..Len(prev_state.means) : \A i \in Coords(prev_state) :
                /\ current.means[k][i] = RMul(a, prev_state.means[k][i])
                /\ \A j \in Coords(prev_state) :
                    current.cov[k][i][j] =
                        RAdd(RMul(a2, prev_state.cov[k][i][j]),
                             IF i = j THEN variance_noise ELSE R(0))

\* a transform at a positive time of a state of dimension above 1 whose
\* components differ
C3_Witness ==
    /\ t_last > 0
    /\ Dim(prev_state) > 1
    /\ prev_state.cov[1] # prev_state.cov[2]
    /\ \E k \in 1..Len(prev_state.cov) : prev_state.cov[k][1][2] # R(0)

\* C8: every state reached from init_mixture by transforms keeps the data-model
\* invariants: n_mixt means, covariances and weights, means of length D,
\* symmetric D x D covariances, weights >= 0 that sum to 1.
C8_DataModelInvariants == WellFormed(current, n_mixt)

\* C10: transforming with noise integral b1 and then with b2 gives the means,
\* covariances and weights of one transform with b1 + b2, in whatever order
\* b1 and b2 come, and a component of unit covariance keeps unit covariance
\* through both.
C10_Semigroup ==
    (Transformed /\ ProperWeights(init_state)) =>
        LET once == transform_mixture_params(init_state, t_total)
            unit == MixState(init_state.means,
                             [k \in Components(init_state) |-> Eye(Dim(init_state))],
                             init_state.mix_weights)
            twice == transform_mixture_params(
                         transform_mixture_params(unit, t_total - t_last), t_last)
        IN  /\ integrate(t_total, 0) = RAdd(integrate(t_total - t_last, 0), integrate(t_last, 0))
            /\ twice.cov = unit.cov
            /\ \A k \in Components(init_state) :
                /\ REq(current.mix_weights[k], once.mix_weights[k])
                /\ \A i \in Coords(init_state) :
                    /\ REq(current.means[k][i], once.means[k][i])
                    /\ \A j \in Coords(init_state) :
                        REq(current.cov[k][i][j], once.cov[k][i][j])

\* two transforms, both at positive times, of a state of dimension above 1
C10_Witness ==
    /\ t_last > 0
    /\ t_total > t_last
    /\ ProperWeights(init_state)
    /\ Dim(init_state) > 1
    /\ \E k \in Components(init_state) : init_state.cov[k][1][2] # R(0)

(* ---------------------------------------------------------------------- *)
(* Properties of cdf_mixtr and cdf_t (SpecCdf)                             *)
(* ---------------------------------------------------------------------- *)

Evaluated == cdf.call # "none"

\* a valid 1-D mixture: positive variances and proper weights
Valid1D(s) ==
    /\ Dim(s) = 1
    /\ \A k \in Components(s) : RLt(R(0), s.cov[k][1][1])
    /\ ProperWeights(s)

\* finite weights, one of them negative or their sum not 1
Degenerate(s) ==
    /\ \A k \in Components(s) : IsFinite(s.mix_weights[k])
    /\ \/ \E k \in Components(s) : RLt(s.mix_weights[k], R(0))
       \/ Sum(s.mix_weights) # R(1)

\* C9: for a valid 1-D mixture cdf_mixtr, and cdf_t at every time t, are
\* monotone non-decreasing in x, take values in [0, 1], and give 0 at -inf and
\* 1 at +inf.
C9_CdfMonotone ==
    (Evaluated /\ Valid1D(current)) =>
        \A a \in 1..Len(cdf.x) :
            /\ RLeq(R(0), cdf.out[a])
            /\ RLeq(cdf.out[a], R(1))
            /\ cdf.x[a] = NegInf => cdf.out[a] = R(0)
            /\ cdf.x[a] = PosInf => cdf.out[a] = R(1)
            /\ \A b \in 1..Len(cdf.x) :
                RLeq(cdf.x[a], cdf.x[b]) => RLeq(cdf.out[a], cdf.out[b])

\* cdf_t at a positive time, at two finite points where the CDF differs, of a
\* mixture with more than one component of positive weight
C9_Witness ==
    /\ cdf.call = "cdf_t"
    /\ cdf.t > 0
    /\ Valid1D(current)
    /\ Cardinality({k \in Components(current) : RLt(R(0), current.mix_weights[k])}) > 1
    /\ IsFinite(cdf.x[1])
    /\ IsFinite(cdf.x[2])
    /\ RLt(cdf.x[1], cdf.x[2])
    /\ RLt(cdf.out[1], cdf.out[2])

\* C7: an evaluation on degenerate weights (one negative, or not summing to 1)
\* fails with an error instead of returning numbers computed from them.
C7_DegenerateWeightsRejected ==
    (Evaluated /\ Degenerate(current)) =>
        ~(cdf.status = "returned" /\ \A a \in 1..Len(cdf.out) : IsFinite(cdf.out[a]))

(* ---------------------------------------------------------------------- *)
(* Properties of sampler_mixtr (SpecSampler)                               *)
(* ---------------------------------------------------------------------- *)

Sampled == last.call # "none"

Samples(c) == 1..c.N

\* the factor used for sample n of call c
Factor(c, n) == c.ret.chol[c.ret.idx[n]]

FactorFailed(L) == \E i, j \in 1..Len(L) : IsNaN(L[i][j])

\* L is lower triangular and L L^T = A
IsCholeskyOf(L, A) ==
    /\ \A i, j \in 1..Len(L) : j > i => L[i][j] = R(0)
    /\ MatMul(L, Transpose(L)) = A

\* C4: sample n is mean_k + L_k @ noise_n for the selected component
\* k = idx[n], L_k the lower Cholesky factor of covariance_k and
\* (L_k @ noise_n)[i] = sum_j L_k[i][j] * noise_n[j].
C4_SampleIsAffineInNoise ==
    (Sampled /\ \A n \in Samples(last) : ~FactorFailed(Factor(last, n))) =>
        \A n \in Samples(last) :
            LET k == last.ret.idx[n]
                L == Factor(last, n)
            IN  /\ IsCholeskyOf(L, last.state.cov[k])
                /\ \A i \in Coords(last.state) :
                    last.ret.out[n][i] =
                        RAdd(last.state.means[k][i],
                             Sum([j \in Coords(last.state) |->
                                    RMul(L[i][j], last.ret.noise[n][j])]))

C6_FactorFailureIsFatal ==
    (Sampled /\ \E n \in Samples(last) : FactorFailed(Factor(last, n))) =>
        last.status # "returned"

====
